---- MODULE Spec2Model ----
(***************************************************************************)
(* Site generation and scoring engine of the site selector                 *)
(* (src/lib/types.ts, the scoring-engine part) and its callers.            *)
(*                                                                         *)
(* Number representation.  The engine computes on IEEE doubles; the model  *)
(* computes on scaled integers:                                            *)
(*   coordinates   in 1e-4 degree       (29.7604 deg  is  297604)          *)
(*   angles, sin, cos, a, c   in 1e-8   (1.0 is ONE)                       *)
(*   distances     in 1e-3 km           (50 km is 50000)                   *)
(*   sub-scores    in 1e-1 score point  (85.9 is 859)                      *)
(*   weights       in 1e-2              (0.25 is 25)                       *)
(*   random draws  as the generator state s, standing for s / RngModulus   *)
(* NaN (the result of 0/0 in the midpoint and of the square root of a     *)
(* negative number) is the value NaN below; every comparison with it is    *)
(* false, as in the language.                                              *)
(***************************************************************************)
EXTENDS Integers, Sequences, FiniteSets

(***************************************************************************)
(* Fixed-point arithmetic standing for the double arithmetic of Math.*     *)
(***************************************************************************)
HALF == 10000
ONE == HALF * HALF
PI == 314159265
HALFPI == PI \div 2

Abs(x) == IF x < 0 THEN -x ELSE x
Sgn(x) == IF x < 0 THEN -1 ELSE 1

\* The arithmetic is written as functions: a function is applied to the
\* value of its argument.

\* floor(x * y) for non-negative fixed-point x, y (1e-8), within 32 bits
MulPos[x \in Nat, y \in Nat] ==
  LET xh == x \div HALF
      xl == x % HALF
      yh == y \div HALF
      yl == y % HALF
      m == xh * yl + xl * yh
      low == (m % HALF) * HALF + xl * yl
  IN  xh * yh + m \div HALF + low \div ONE

\* what floor(x * y) leaves of x * y, in 1e-16
MulRem[x \in Nat, y \in Nat] ==
  LET xh == x \div HALF
      xl == x % HALF
      yh == y \div HALF
      yl == y % HALF
      m == xh * yl + xl * yh
  IN  ((m % HALF) * HALF + xl * yl) % ONE

Mul[x \in Int, y \in Int] == Sgn(x) * Sgn(y) * MulPos[Abs(x), Abs(y)]

\* x / 2 rounded toward zero
Halve[x \in Int] == Sgn(x) * (Abs(x) \div 2)

\* (d * Math.PI) / 180 for d in 1e-4 degree; the result in 1e-8 radian
\* (PI * 1e4 / 180 = 174.5329252)
ToRadians[d \in Int] ==
  LET m == Abs(d)
      mh == m \div 1000
      ml == m % 1000
  IN  Sgn(d) * (m * 174 + (mh * 5329) \div 10 + (ml * 5329) \div 10000
                + (m * 252) \div 10000000)

\* the Taylor series of sin and cos, term by term: n terms from term on,
\* the next being term * x2 / (k * (k + 1)), with alternating signs
Series[term \in Nat, x2 \in Nat, k \in Nat, n \in Nat] ==
  IF n = 0 \/ term = 0 THEN 0
  ELSE term - Series[MulPos[term, x2] \div (k * (k + 1)), x2, k + 2, n - 1]

\* Math.sin(x), x in [-PI, PI]
Sin[x \in Int] ==
  LET m == Abs(x)
      r == IF m > HALFPI THEN PI - m ELSE m
  IN  Sgn(x) * Series[r, MulPos[r, r], 2, 12]

\* Math.cos(x), x in [-PI/2, PI/2]
Cos[x \in Int] == Series[ONE, MulPos[Abs(x), Abs(x)], 1, 12]

\* Math.sqrt(a), a in [0, 1]: the largest v in lo..hi with v * v <= a
SqrtIn[a \in Nat, lo \in Nat, hi \in Nat] ==
  IF lo >= hi THEN lo
  ELSE LET mid == lo + (hi - lo + 1) \div 2
       IN  IF MulPos[mid, mid] < a \/ (MulPos[mid, mid] = a /\ MulRem[mid, mid] = 0)
             THEN SqrtIn[a, mid, hi]
             ELSE SqrtIn[a, lo, mid - 1]

Sqrt[a \in Nat] == SqrtIn[a, 0, ONE]

\* Math.atan2(y, x) for y >= 0, x >= 0: the largest angle t in lo..hi with
\* x * sin t <= y * cos t
Atan2In[y \in Nat, x \in Nat, lo \in Nat, hi \in Nat] ==
  IF lo >= hi THEN lo
  ELSE LET mid == lo + (hi - lo + 1) \div 2
       IN  IF MulPos[Sin[mid], x] <= MulPos[Cos[mid], y]
             THEN Atan2In[y, x, mid, hi]
             ELSE Atan2In[y, x, lo, mid - 1]

Atan2[y \in Nat, x \in Nat] == Atan2In[y, x, 0, HALFPI]

\* a of the Haversine formula, from the two sines and the two cosines
HaversineA[sLat \in Int, sLon \in Int, cos1 \in Int, cos2 \in Int] ==
  Mul[sLat, sLat] + Mul[Mul[Mul[cos1, cos2], sLon], sLon]

\* c of the Haversine formula
HaversineC[a \in Nat] == 2 * Atan2[Sqrt[a], Sqrt[ONE - a]]

\* R * c in 1e-3 km, for c in 1e-8 radian
ArcLength[R \in Nat, c \in Nat] == R * (c \div 100000) + (R * (c % 100000)) \div 100000

EarthRadius == 6371

\* the value that is no number: 0/0, and Math.sqrt of a negative number;
\* outside every coordinate, never compared as a number
NaN == 999999999

(* Calculate distance between two coordinates using Haversine formula;    *)
(* Math.sqrt(a) or Math.sqrt(1 - a) of a negative number is NaN, and so   *)
(* are the Math.atan2 of it and the product with R                        *)
calculateDistance(lat1, lon1, lat2, lon2) ==
  LET R == EarthRadius
      dLat == ToRadians[lat2 - lat1]
      dLon == ToRadians[lon2 - lon1]
      a == HaversineA[Sin[Halve[dLat]], Sin[Halve[dLon]],
                      Cos[ToRadians[lat1]], Cos[ToRadians[lat2]]]
  IN  IF a < 0 \/ ONE - a < 0 THEN NaN ELSE ArcLength[R, HaversineC[a]]

(***************************************************************************)
(* Configuration tables                                                    *)
(***************************************************************************)
\* Scoring weights for different criteria (1e-2)
SCORING_WEIGHTS ==
  [governmental |-> 30, logistics |-> 25, policyIncentives |-> 25,
   communityReadiness |-> 20]

\* Geographic regions with different regulatory environments
REGULATORY_ZONES ==
  [region \in {"gulf-coast", "midwest", "northeast", "west-coast", "southeast"} |->
     CASE region = "gulf-coast" -> [governmental |-> 85, logistics |-> 90, policy |-> 75]
       [] region = "midwest"    -> [governmental |-> 70, logistics |-> 85, policy |-> 60]
       [] region = "northeast"  -> [governmental |-> 60, logistics |-> 70, policy |-> 80]
       [] region = "west-coast" -> [governmental |-> 65, logistics |-> 75, policy |-> 90]
       [] region = "southeast"  -> [governmental |-> 80, logistics |-> 80, policy |-> 70]]

\* Infrastructure proximity scoring
INFRASTRUCTURE_FACTORS ==
  [port      |-> [logistics |-> 25, governmental |-> 5],
   highway   |-> [logistics |-> 15, governmental |-> 0],
   rail      |-> [logistics |-> 20, governmental |-> 0],
   pipeline  |-> [logistics |-> 30, governmental |-> 10],
   powerGrid |-> [logistics |-> 10, governmental |-> 5]]


\* whole degrees in the unit of the coordinates
Deg(n) == n * 10000

\* a >= b, a <= b, a < b, a > b on numbers that may be NaN
Geq(a, b) == a # NaN /\ b # NaN /\ a >= b
Leq(a, b) == a # NaN /\ b # NaN /\ a <= b
Lt(a, b) == a # NaN /\ b # NaN /\ a < b
Gt(a, b) == a # NaN /\ b # NaN /\ a > b

\* DataValidator.validateCoordinates
validateCoordinates(lat, lon) ==
  Geq(lat, Deg(-90)) /\ Leq(lat, Deg(90)) /\ Geq(lon, Deg(-180)) /\ Leq(lon, Deg(180))

\* a variant of the region that tests the northeast box before the midwest
getGeographicRegionNortheastFirst(lat, lon) ==
  IF Geq(lat, Deg(25)) /\ Leq(lat, Deg(32)) /\ Geq(lon, Deg(-97)) /\ Leq(lon, Deg(-87))
    THEN "gulf-coast"
  ELSE IF Geq(lat, Deg(39)) /\ Leq(lat, Deg(45)) /\ Geq(lon, Deg(-80)) /\ Leq(lon, Deg(-69))
    THEN "northeast"
  ELSE IF Geq(lat, Deg(38)) /\ Leq(lat, Deg(47)) /\ Geq(lon, Deg(-90)) /\ Leq(lon, Deg(-80))
    THEN "midwest"
  ELSE IF Geq(lat, Deg(32)) /\ Leq(lat, Deg(49)) /\ Geq(lon, Deg(-125)) /\ Leq(lon, Deg(-114))
    THEN "west-coast"
  ELSE "southeast"

(* Determine geographic region based on coordinates *)
getGeographicRegion(lat, lon) ==
  IF Geq(lat, Deg(25)) /\ Leq(lat, Deg(32)) /\ Geq(lon, Deg(-97)) /\ Leq(lon, Deg(-87))
    THEN "gulf-coast"
  ELSE IF Geq(lat, Deg(38)) /\ Leq(lat, Deg(47)) /\ Geq(lon, Deg(-90)) /\ Leq(lon, Deg(-80))
    THEN "midwest"
  ELSE IF Geq(lat, Deg(39)) /\ Leq(lat, Deg(45)) /\ Geq(lon, Deg(-80)) /\ Leq(lon, Deg(-69))
    THEN "northeast"
  ELSE IF Geq(lat, Deg(32)) /\ Leq(lat, Deg(49)) /\ Geq(lon, Deg(-125)) /\ Leq(lon, Deg(-114))
    THEN "west-coast"
  ELSE "southeast"

(***************************************************************************)
(* Math.random(): a generator with one hidden state for the whole process. *)
(* A draw advances the state and returns it, standing for state/RngModulus *)
(* in [0, 1).                                                              *)
(***************************************************************************)
RngModulus == 8

RandomNext(s) == (5 * s + 3) % RngModulus

\* the state after n draws
RECURSIVE RandomAfter(_, _)
RandomAfter(s, n) == IF n = 0 THEN s ELSE RandomAfter(RandomNext(s), n - 1)

\* Math.random() > tenths / 10, for the draw that returned r
Above(r, tenths) == r * 10 > tenths * RngModulus

(* Mock infrastructure proximity detection; s is the generator state at   *)
(* entry, the field rng of the result the state at exit                   *)
getInfrastructureContext(lat, lon, s) ==
  LET isCoastal == Gt(Abs(lon), Deg(80)) /\ (Lt(lat, Deg(35)) \/ Gt(lat, Deg(45)))
      isUrban == Above(RandomAfter(s, 1), 6)
      \* nearPort draws only if isCoastal (&& short-circuits)
      p == IF isCoastal THEN 2 ELSE 1
      \* populationDensity draws only if not isUrban
      q == IF isUrban THEN p + 4 ELSE p + 5
  IN  [nearPort |-> isCoastal /\ Above(RandomAfter(s, 2), 4),
       nearHighway |-> Above(RandomAfter(s, p + 1), 3),
       nearRail |-> Above(RandomAfter(s, p + 2), 5),
       nearPipeline |-> Above(RandomAfter(s, p + 3), 4),
       nearPowerGrid |-> Above(RandomAfter(s, p + 4), 2),
       populationDensity |->
         IF isUrban THEN "high"
         ELSE IF Above(RandomAfter(s, p + 5), 5) THEN "medium" ELSE "low",
       industrialZoning |-> Above(RandomAfter(s, q + 1), 4),
       rng |-> RandomAfter(s, q + 1)]

(***************************************************************************)
(* Scoring model; scores in 1e-1 point                                     *)
(***************************************************************************)
Min(a, b) == IF a < b THEN a ELSE b
Max(a, b) == IF a > b THEN a ELSE b

\* Math.max(0, Math.min(100, score))
Clamp(score) == Max(0, Min(1000, score))

\* a variant without the penalty for land that is not zoned industrial
calculateGovernmentalScoreNoPenalty(context) ==
  LET base == REGULATORY_ZONES[context.region].governmental
      zoning == IF context.industrialZoning THEN 10 ELSE 0
      density == CASE context.populationDensity = "low" -> 5
                   [] context.populationDensity = "medium" -> -5
                   [] context.populationDensity = "high" -> -15
      port == IF context.nearPort THEN INFRASTRUCTURE_FACTORS.port.governmental ELSE 0
      pipeline == IF context.nearPipeline
                    THEN INFRASTRUCTURE_FACTORS.pipeline.governmental ELSE 0
      grid == IF context.nearPowerGrid
                THEN INFRASTRUCTURE_FACTORS.powerGrid.governmental ELSE 0
  IN  Clamp(10 * (base + zoning + density + port + pipeline + grid))

(* Calculate governmental permission score *)
calculateGovernmentalScore(context) ==
  LET base == REGULATORY_ZONES[context.region].governmental
      zoning == IF context.industrialZoning THEN 10 ELSE -15
      density == CASE context.populationDensity = "low" -> 5
                   [] context.populationDensity = "medium" -> -5
                   [] context.populationDensity = "high" -> -15
      port == IF context.nearPort THEN INFRASTRUCTURE_FACTORS.port.governmental ELSE 0
      pipeline == IF context.nearPipeline
                    THEN INFRASTRUCTURE_FACTORS.pipeline.governmental ELSE 0
      grid == IF context.nearPowerGrid
                THEN INFRASTRUCTURE_FACTORS.powerGrid.governmental ELSE 0
  IN  Clamp(10 * (base + zoning + density + port + pipeline + grid))

\* a variant that charges medium density as it does high
calculateLogisticsScoreMedium(context) ==
  LET base == REGULATORY_ZONES[context.region].logistics
      port == IF context.nearPort THEN INFRASTRUCTURE_FACTORS.port.logistics ELSE 0
      highway == IF context.nearHighway THEN INFRASTRUCTURE_FACTORS.highway.logistics ELSE 0
      rail == IF context.nearRail THEN INFRASTRUCTURE_FACTORS.rail.logistics ELSE 0
      pipeline == IF context.nearPipeline
                    THEN INFRASTRUCTURE_FACTORS.pipeline.logistics ELSE 0
      grid == IF context.nearPowerGrid THEN INFRASTRUCTURE_FACTORS.powerGrid.logistics ELSE 0
      density == IF context.populationDensity # "low" THEN -10 ELSE 0
  IN  Clamp(10 * (base + port + highway + rail + pipeline + grid + density))

(* Calculate logistics score *)
calculateLogisticsScore(context) ==
  LET base == REGULATORY_ZONES[context.region].logistics
      port == IF context.nearPort THEN INFRASTRUCTURE_FACTORS.port.logistics ELSE 0
      highway == IF context.nearHighway THEN INFRASTRUCTURE_FACTORS.highway.logistics ELSE 0
      rail == IF context.nearRail THEN INFRASTRUCTURE_FACTORS.rail.logistics ELSE 0
      pipeline == IF context.nearPipeline
                    THEN INFRASTRUCTURE_FACTORS.pipeline.logistics ELSE 0
      grid == IF context.nearPowerGrid THEN INFRASTRUCTURE_FACTORS.powerGrid.logistics ELSE 0
      density == IF context.populationDensity = "high" THEN -10 ELSE 0
  IN  Clamp(10 * (base + port + highway + rail + pipeline + grid + density))

\* a variant with a penalty for land that is not zoned industrial
calculatePolicyIncentivesScorePenalty(context) ==
  LET base == REGULATORY_ZONES[context.region].policy
      zoning == IF context.industrialZoning THEN 15 ELSE -15
      density == CASE context.populationDensity = "low" -> 10
                   [] context.populationDensity = "medium" -> 5
                   [] context.populationDensity = "high" -> -5
  IN  Clamp(10 * (base + zoning + density))

(* Calculate policy incentives score *)
calculatePolicyIncentivesScore(context) ==
  LET base == REGULATORY_ZONES[context.region].policy
      zoning == IF context.industrialZoning THEN 15 ELSE 0
      density == CASE context.populationDensity = "low" -> 10
                   [] context.populationDensity = "medium" -> 5
                   [] context.populationDensity = "high" -> -5
  IN  Clamp(10 * (base + zoning + density))

\* a variant that adds 10 for each of port, rail and pipeline
calculateCommunityReadinessScorePerFlag(context) ==
  LET base == 50
      zoning == IF context.industrialZoning THEN 20 ELSE 0
      density == CASE context.populationDensity = "low" -> 15
                   [] context.populationDensity = "medium" -> 5
                   [] context.populationDensity = "high" -> -20
      infra == (IF context.nearPort THEN 10 ELSE 0) + (IF context.nearRail THEN 10 ELSE 0)
                 + (IF context.nearPipeline THEN 10 ELSE 0)
  IN  Clamp(10 * (base + zoning + density + infra))

(* Calculate community readiness score *)
calculateCommunityReadinessScore(context) ==
  LET base == 50
      zoning == IF context.industrialZoning THEN 20 ELSE 0
      density == CASE context.populationDensity = "low" -> 15
                   [] context.populationDensity = "medium" -> 5
                   [] context.populationDensity = "high" -> -20
      infra == IF context.nearPort \/ context.nearRail \/ context.nearPipeline
                 THEN 10 ELSE 0
  IN  Clamp(10 * (base + zoning + density + infra))

\* the four sub-scores calculateSiteScores returns for a context
scoreContext(context) ==
  [governmental |-> calculateGovernmentalScore(context),
   logistics |-> calculateLogisticsScore(context),
   policyIncentives |-> calculatePolicyIncentivesScore(context),
   communityReadiness |-> calculateCommunityReadinessScore(context)]

(* Calculate comprehensive site scores; rng is the generator state after  *)
calculateSiteScores(lat, lon, s) ==
  LET region == getGeographicRegion(lat, lon)
      infraContext == getInfrastructureContext(lat, lon, s)
      context == [region |-> region,
                  nearPort |-> infraContext.nearPort,
                  nearHighway |-> infraContext.nearHighway,
                  nearRail |-> infraContext.nearRail,
                  nearPipeline |-> infraContext.nearPipeline,
                  nearPowerGrid |-> infraContext.nearPowerGrid,
                  populationDensity |-> infraContext.populationDensity,
                  industrialZoning |-> infraContext.industrialZoning]
      scores == scoreContext(context)
  IN  [governmental |-> scores.governmental,
       logistics |-> scores.logistics,
       policyIncentives |-> scores.policyIncentives,
       communityReadiness |-> scores.communityReadiness,
       rng |-> infraContext.rng]

\* a variant of the rounding that truncates
Truncate(x) == x \div 1000

\* Math.round(x) for x >= 0 in 1e-3: to the nearest integer, halves up
Round(x) == (x + 500) \div 1000

(* Calculate weighted overall score *)
calculateOverallScore(scores) ==
  Round(scores.governmental * SCORING_WEIGHTS.governmental
        + scores.logistics * SCORING_WEIGHTS.logistics
        + scores.policyIncentives * SCORING_WEIGHTS.policyIncentives
        + scores.communityReadiness * SCORING_WEIGHTS.communityReadiness)

\* reduce((sum, f) => sum + f[field], 0)
RECURSIVE SumField(_, _)
SumField(fs, field) ==
  IF fs = <<>> THEN 0 ELSE fs[1][field] + SumField(Tail(fs), field)

\* a variant of the synergies whose thresholds are inclusive
analyzeFacilitySynergiesInclusive(aceticFacilities, co2Facilities) ==
  LET totalAceticCapacity == SumField(aceticFacilities, "capacity")
      totalCO2Emissions == SumField(co2Facilities, "co2EmissionRate")
      facilityTypes == {co2Facilities[n].facilityType : n \in DOMAIN co2Facilities}
      synergyScore == (IF totalAceticCapacity >= 400000 THEN 10 ELSE 0)
                      + (IF totalCO2Emissions >= 2000000 THEN 10 ELSE 0)
                      + Min(Cardinality(facilityTypes) * 3, 15)
  IN  Min(synergyScore, 25)

(* Analyze facility synergies for enhanced scoring *)
analyzeFacilitySynergies(aceticFacilities, co2Facilities) ==
  LET totalAceticCapacity == SumField(aceticFacilities, "capacity")
      totalCO2Emissions == SumField(co2Facilities, "co2EmissionRate")
      facilityTypes == {co2Facilities[n].facilityType : n \in DOMAIN co2Facilities}
      synergyScore == (IF totalAceticCapacity > 400000 THEN 10 ELSE 0)
                      + (IF totalCO2Emissions > 2000000 THEN 10 ELSE 0)
                      + Min(Cardinality(facilityTypes) * 3, 15)
  IN  Min(synergyScore, 25)

(***************************************************************************)
(* The facilities of the model                                             *)
(***************************************************************************)
AceticAcidFacility(id, latitude, longitude, capacity) ==
  [id |-> id, latitude |-> latitude, longitude |-> longitude, capacity |-> capacity]

CO2EmitterFacility(id, latitude, longitude, co2EmissionRate, facilityType) ==
  [id |-> id, latitude |-> latitude, longitude |-> longitude,
   co2EmissionRate |-> co2EmissionRate, facilityType |-> facilityType]

\* aa-001 of the mock data, a plant 33 km north of it at the capacity
\* threshold, and a record with no capacity at the place of aa-003
AA001 == AceticAcidFacility("aa-001", 297604, -953698, 500000)
AAN == AceticAcidFacility("aa-n", 300604, -953698, 400000)
AA0 == AceticAcidFacility("aa-0", 407128, -740060, 0)

AceticPool == {AA001, AAN, AA0}

\* co2-001 of the mock data, an emitter 36 km east of it at the emission
\* threshold, and a record with no emissions at the place of co2-003
CO2001 == CO2EmitterFacility("co2-001", 297604, -953698, 2500000, "petrochemical")
CO2E == CO2EmitterFacility("co2-e", 297604, -950000, 2000000, "refinery")
CO20 == CO2EmitterFacility("co2-0", 407128, -740060, 0, "power")

CO2Pool == {CO2001, CO2E, CO20}

\* records no validator has seen: a plant and an emitter at longitude -185
AAX == AceticAcidFacility("aa-x", 297604, -1850000, 500000)
CO2X == CO2EmitterFacility("co2-x", 297604, -1850000, 2500000, "petrochemical")

UnvalidatedAcetic == {AA001, AAX}
UnvalidatedCO2 == {CO2001, CO2X}

\* calculateDistance, computed once for the coordinates of the facilities
PoolCoordinates ==
  {<<f.latitude, f.longitude>> :
     f \in AceticPool \cup CO2Pool \cup UnvalidatedAcetic \cup UnvalidatedCO2}

DistanceTable ==
  {<<p, calculateDistance(p[1][1], p[1][2], p[2][1], p[2][2])>> :
     p \in PoolCoordinates \X PoolCoordinates}

distanceBetween(lat1, lon1, lat2, lon2) ==
  (CHOOSE e \in DistanceTable : e[1] = <<<<lat1, lon1>>, <<lat2, lon2>>>>)[2]

(***************************************************************************)
(* Site generator                                                          *)
(***************************************************************************)
\* n / d to the nearest unit of the result
RoundDiv(n, d) == Sgn(n) * ((2 * Abs(n) + d) \div (2 * d))

\* (x1 * w1 + x2 * w2) / (w1 + w2); 0/0 is NaN
WeightedAverage(x1, w1, x2, w2) ==
  IF w1 + w2 = 0 THEN NaN ELSE RoundDiv(x1 * w1 + x2 * w2, w1 + w2)

\* Math.round(distance * 100) / 100, distance in 1e-3 km
RoundDistance(distance) == ((distance + 5) \div 10) * 10

\* a variant of the name that counts from zero
SiteNameFromZero(siteId) == <<"site-", siteId - 1>>

\* `site-${siteId}`
SiteName(siteId) == <<"site-", siteId>>

\* a variant of the numbering that counts every pair
CountEveryPair(siteId, emit) == siteId + 1

\* siteId++ in the push of an emitted site; a discarded pair leaves it
NextSiteId(siteId, emit) == IF emit THEN siteId + 1 ELSE siteId

\* a variant of the counter that is one module-level variable
ModuleCounter(k) == 1

\* let siteId = 1 is a local of the call: call k counts in its own siteId
SiteCounter(k) == k

\* variants of the distance filter: none at all, and an exclusive one
AnyDistance(distance, maxDistance) == TRUE
StrictlyWithinDistance(distance, maxDistance) == distance < maxDistance

\* distance <= maxDistance
WithinDistance(distance, maxDistance) == distance <= maxDistance

\* overallScore >= minScore
MeetsScore(overallScore, minScore) == overallScore >= minScore

\* a variant of the boost without the cap at 100
BoostUncapped(score, synergyBonus, tenths) == score + synergyBonus * tenths

\* a variant of the boost that caps the score before it adds the bonus
BoostCapFirst(score, synergyBonus, tenths) == Min(1000, score) + synergyBonus * tenths

\* Math.min(100, score + synergyBonus * tenths / 10)
Boost(score, synergyBonus, tenths) == Min(1000, score + synergyBonus * tenths)

\* a variant of the spread that boosts what it should keep
SpreadBoosted(score, synergyBonus) == Min(1000, score + synergyBonus * 3)

\* ...scores: a sub-score the object literal does not override is kept
Spread(score, synergyBonus) == score

\* const adjustedScores = {...scores, governmental: ..., logistics: ...}
adjustScores(scores, synergyBonus) ==
  [governmental |-> Boost(scores.governmental, synergyBonus, 3),
   logistics |-> Boost(scores.logistics, synergyBonus, 4),
   policyIncentives |-> Spread(scores.policyIncentives, synergyBonus),
   communityReadiness |-> Spread(scores.communityReadiness, synergyBonus)]

\* a variant of the site that names no facility
NoFacilityIds(facility) == <<>>

\* [aceticFacility.id], [co2Facility.id]: the one facility of each kind
FacilityIds(facility) == <<facility.id>>

(* The body of the two forEach loops for one pair: within says whether    *)
(* the pair passed the distance filter, emit whether it passed both, site *)
(* is the record pushed if emit, rng the generator state afterwards.      *)
processPair(aceticFacility, co2Facility, maxDistance, minScore, siteId, s) ==
  LET distance == distanceBetween(aceticFacility.latitude, aceticFacility.longitude,
                                  co2Facility.latitude, co2Facility.longitude)
      aceticWeight == aceticFacility.capacity \div 10000
      co2Weight == co2Facility.co2EmissionRate \div 100000
      optimalLat == WeightedAverage(aceticFacility.latitude, aceticWeight,
                                    co2Facility.latitude, co2Weight)
      optimalLon == WeightedAverage(aceticFacility.longitude, aceticWeight,
                                    co2Facility.longitude, co2Weight)
      scores == calculateSiteScores(optimalLat, optimalLon, s)
      synergyBonus == analyzeFacilitySynergies(<<aceticFacility>>, <<co2Facility>>)
      adjustedScores == adjustScores(scores, synergyBonus)
      overallScore == calculateOverallScore(adjustedScores)
  IN  IF ~WithinDistance(distance, maxDistance)
        THEN [within |-> FALSE, emit |-> FALSE, distance |-> distance,
              overallScore |-> -1, rng |-> s]
        ELSE [within |-> TRUE, emit |-> MeetsScore(overallScore, minScore),
              distance |-> distance, overallScore |-> overallScore,
              rng |-> scores.rng,
              scores |-> [governmental |-> scores.governmental,
                          logistics |-> scores.logistics,
                          policyIncentives |-> scores.policyIncentives,
                          communityReadiness |-> scores.communityReadiness],
              synergyBonus |-> synergyBonus,
              site |-> [id |-> SiteName(siteId),
                        latitude |-> optimalLat,
                        longitude |-> optimalLon,
                        aceticAcidFacilities |-> FacilityIds(aceticFacility),
                        co2EmitterFacilities |-> FacilityIds(co2Facility),
                        distance |-> RoundDistance(distance),
                        governmentalScore |-> adjustedScores.governmental,
                        logisticsScore |-> adjustedScores.logistics,
                        policyIncentivesScore |-> adjustedScores.policyIncentives,
                        communityReadinessScore |-> adjustedScores.communityReadiness,
                        overallScore |-> overallScore]]

\* variants of the comparator: ascending, and one that also moves a tie
ComesBeforeAscending(b, a) == a.overallScore - b.overallScore > 0
ComesBeforeOrTied(b, a) == b.overallScore - a.overallScore >= 0

\* the comparator of the final sort: b.overallScore - a.overallScore > 0,
\* b must come before a
ComesBefore(b, a) == b.overallScore - a.overallScore > 0

\* Array.prototype.sort is stable: site goes behind every element it does
\* not have to come before
RECURSIVE InsertSite(_, _)
InsertSite(sorted, site) ==
  IF sorted = <<>> THEN <<site>>
  ELSE IF ComesBefore(site, Head(sorted)) THEN <<site>> \o sorted
  ELSE <<Head(sorted)>> \o InsertSite(Tail(sorted), site)

RECURSIVE SortSites(_)
SortSites(list) ==
  IF list = <<>> THEN <<>>
  ELSE InsertSite(SortSites(SubSeq(list, 1, Len(list) - 1)), list[Len(list)])

(***************************************************************************)
(* Inputs of the calls                                                     *)
(***************************************************************************)
MaxAcetic == 2
MaxCO2 == 2

\* the lists of distinct elements of S of length at most n
ListsUpTo(S, n) ==
  UNION {{l \in [1..m -> S] : \A i, j \in 1..m : i # j => l[i] # l[j]} : m \in 0..n}

\* the distance of aa-001 and co2-e and that of aa-n and co2-001, for
\* the thresholds at the boundary of a pair
BoundaryDistance ==
  distanceBetween(AA001.latitude, AA001.longitude, CO2E.latitude, CO2E.longitude)
NearDistance ==
  distanceBetween(AAN.latitude, AAN.longitude, CO2001.latitude, CO2001.longitude)

MaxDistances == {50000, BoundaryDistance, NearDistance}
MinScores == {0, 82}

\* the weights a caller has configured (1e-2): the default and one that
\* sums to 0.99
WeightConfigs ==
  {[governmental |-> 30, logistics |-> 25, policyIncentives |-> 25,
    communityReadiness |-> 20],
   [governmental |-> 30, logistics |-> 25, policyIncentives |-> 25,
    communityReadiness |-> 19]}

\* the seeds a caller may want its run to be drawn from
Seeds == {1, 2}

AceticLists == ListsUpTo(AceticPool, MaxAcetic)
CO2Lists == ListsUpTo(CO2Pool, MaxCO2)

CallInputs ==
  [acetic : AceticLists, co2 : CO2Lists,
   maxDistance : MaxDistances, minScore : MinScores, weights : WeightConfigs,
   seed : Seeds]

(***************************************************************************)
(* State: the generator of Math.random, and per call of                    *)
(* generateSiteRecommendations its arguments, its locals and its result.   *)
(* pairs is a history variable: what the loop body did for each pair.      *)
(* probe is one application of an exported function on its own: the        *)
(* function, its arguments and what it returned.                           *)
(***************************************************************************)
Calls == {1, 2}

VARIABLES rng, pc, aceticFacilities, co2Facilities, maxDistance, minScore,
          weights, seed, ai, ci, sites, siteId, result, pairs, probe,
          fetched, config, saveStatus, saving, timers, selectedSites

vars == <<rng, pc, aceticFacilities, co2Facilities, maxDistance, minScore,
          weights, seed, ai, ci, sites, siteId, result, pairs, probe,
          fetched, config, saveStatus, saving, timers, selectedSites>>

\* the state of the engine, of its callers and of the functions applied
engineVars == <<rng, pc, aceticFacilities, co2Facilities, maxDistance, minScore,
                weights, seed, ai, ci, sites, siteId, result, pairs, probe, fetched>>

\* the state of the pages: the admin panel and the dashboard
pageVars == <<config, saveStatus, saving, timers, selectedSites>>

\* the route has fetched nothing
NoFetch == [acetic |-> <<>>, co2 |-> <<>>]

\* SCORING_WEIGHTS.x * 100: a weight (1e-2) in percent (1e-1)
Percent(weight) == weight * 10

\* the configuration the admin panel starts with, its weights in percent
InitialConfig ==
  [scoringWeights |-> [key \in DOMAIN SCORING_WEIGHTS |-> Percent(SCORING_WEIGHTS[key])]]

\* no function has been applied on its own
NoProbe == [fn |-> "none", in |-> <<>>, out |-> <<>>]

Init ==
  /\ rng \in 0..(RngModulus - 1)
  /\ pc = [k \in Calls |-> "idle"]
  /\ aceticFacilities = [k \in Calls |-> <<>>]
  /\ co2Facilities = [k \in Calls |-> <<>>]
  /\ maxDistance = [k \in Calls |-> 0]
  /\ minScore = [k \in Calls |-> 0]
  /\ weights = [k \in Calls |-> SCORING_WEIGHTS]
  /\ seed = [k \in Calls |-> 1]
  /\ ai = [k \in Calls |-> 1]
  /\ ci = [k \in Calls |-> 1]
  /\ sites = [k \in Calls |-> <<>>]
  /\ siteId = [k \in Calls |-> 1]
  /\ result = [k \in Calls |-> <<>>]
  /\ pairs = [k \in Calls |-> <<>>]
  /\ probe = NoProbe
  /\ fetched = NoFetch
  /\ config = InitialConfig
  /\ saveStatus = "idle"
  /\ saving = <<>>
  /\ timers = 0
  /\ selectedSites = <<>>

\* generateSiteRecommendations(acetic, co2, maxDistance, minScore) is
\* entered; the weight configuration and the seed the caller holds are no
\* parameters of it, and nothing in its body reads them
Enter(k, in) ==
  /\ pc[k] = "idle"
  /\ pc' = [pc EXCEPT ![k] = "loop"]
  /\ aceticFacilities' = [aceticFacilities EXCEPT ![k] = in.acetic]
  /\ co2Facilities' = [co2Facilities EXCEPT ![k] = in.co2]
  /\ maxDistance' = [maxDistance EXCEPT ![k] = in.maxDistance]
  /\ minScore' = [minScore EXCEPT ![k] = in.minScore]
  /\ weights' = [weights EXCEPT ![k] = in.weights]
  /\ seed' = [seed EXCEPT ![k] = in.seed]
  /\ sites' = [sites EXCEPT ![k] = <<>>]
  /\ siteId' = [siteId EXCEPT ![SiteCounter(k)] = 1]
  /\ ai' = [ai EXCEPT ![k] = 1]
  /\ ci' = [ci EXCEPT ![k] = 1]
  /\ UNCHANGED <<rng, result, pairs, probe, pageVars>>

\* a caller of its own passes the lists it holds
Call(k, in) == Enter(k, in) /\ UNCHANGED fetched

\* a variant of the loop test that looks at the outer list only
MorePairsOuter(k) == ai[k] <= Len(aceticFacilities[k])

\* the loops have a pair left
MorePairs(k) == ai[k] <= Len(aceticFacilities[k]) /\ ci[k] <= Len(co2Facilities[k])

\* one turn of the inner forEach
ProcessPair(k) ==
  /\ pc[k] = "loop"
  /\ MorePairs(k)
  /\ \E r \in {processPair(aceticFacilities[k][ai[k]], co2Facilities[k][ci[k]],
                            maxDistance[k], minScore[k], siteId[SiteCounter(k)],
                            rng)} :
         /\ rng' = r.rng
         /\ sites' = [sites EXCEPT ![k] = IF r.emit THEN Append(@, r.site) ELSE @]
         /\ siteId' = [siteId EXCEPT ![SiteCounter(k)] = NextSiteId(@, r.emit)]
         /\ pairs' = [pairs EXCEPT ![k] =
                        Append(@, [a |-> ai[k], c |-> ci[k], distance |-> r.distance,
                                   within |-> r.within, emit |-> r.emit,
                                   overallScore |-> r.overallScore,
                                   id |-> IF r.emit THEN r.site.id ELSE <<>>,
                                   scores |-> IF r.within THEN r.scores ELSE <<>>,
                                   synergyBonus |->
                                     IF r.within THEN r.synergyBonus ELSE 0])]
  /\ IF ci[k] < Len(co2Facilities[k])
       THEN /\ ci' = [ci EXCEPT ![k] = @ + 1]
            /\ ai' = ai
       ELSE /\ ci' = [ci EXCEPT ![k] = 1]
            /\ ai' = [ai EXCEPT ![k] = @ + 1]
  /\ UNCHANGED <<pc, aceticFacilities, co2Facilities, maxDistance, minScore,
                 weights, seed, result, probe, fetched, pageVars>>

\* return sites.sort(...)
Return(k) ==
  /\ pc[k] = "loop"
  /\ ~MorePairs(k)
  /\ pc' = [pc EXCEPT ![k] = "done"]
  /\ sites' = [sites EXCEPT ![k] = SortSites(@)]
  /\ result' = [result EXCEPT ![k] = SortSites(sites[k])]
  /\ UNCHANGED <<rng, aceticFacilities, co2Facilities, maxDistance, minScore,
                 weights, seed, ai, ci, siteId, pairs, probe, fetched, pageVars>>

\* one call, over all the inputs
Next ==
  \/ pc[1] = "idle" /\ \E in \in CallInputs : Call(1, in)
  \/ ProcessPair(1)
  \/ Return(1)

Spec == Init /\ [][Next]_vars

\* the inputs of two calls that run side by side: aa-001 alone or followed
\* by aa-n, and co2-001 alone or followed by another emitter
TwoCallInputs ==
  {in \in CallInputs :
     /\ in.acetic \in {<<AA001>>, <<AA001, AAN>>}
     /\ Len(in.co2) > 0
     /\ in.co2[1] = CO2001
     /\ in.maxDistance = 50000
     /\ in.minScore = 0
     /\ in.weights = SCORING_WEIGHTS}

\* two calls, one after the other or, as from independent callers whose
\* turns alternate, with their loops interleaved
CallStep(k) ==
  \/ pc[k] = "idle" /\ \E in \in TwoCallInputs : Call(k, in)
  \/ ProcessPair(k)
  \/ Return(k)

NextTwo == \E k \in Calls : CallStep(k)

SpecTwo == Init /\ [][NextTwo]_vars

\* a caller that hands over records as it has them, validated or not
UnvalidatedInputs ==
  {in \in CallInputs :
     /\ in.maxDistance = 50000
     /\ in.minScore = 0
     /\ in.weights = SCORING_WEIGHTS
     /\ in.seed = 1} \cup
  [acetic : ListsUpTo(UnvalidatedAcetic, MaxAcetic),
   co2 : ListsUpTo(UnvalidatedCO2, MaxCO2),
   maxDistance : {50000}, minScore : {0}, weights : {SCORING_WEIGHTS}, seed : {1}]

NextUnvalidated ==
  \/ pc[1] = "idle" /\ \E in \in UnvalidatedInputs : Call(1, in)
  \/ ProcessPair(1)
  \/ Return(1)

SpecUnvalidated == Init /\ [][NextUnvalidated]_vars

(***************************************************************************)
(* The exported functions applied on their own, once each behaviour        *)
(***************************************************************************)
\* co2-002 and co2-004 of the mock data, and a cement plant whose rate
\* brings co2-002 to the emission threshold exactly
CO2002 == CO2EmitterFacility("co2-002", 418781, -876298, 1800000, "steel")
CO2004 == CO2EmitterFacility("co2-004", 302241, -920198, 1500000, "petrochemical")
CO2C == CO2EmitterFacility("co2-c", 418781, -876298, 200000, "cement")

\* emitters of all the five facility types, one type twice
AllTypes == <<CO2001, CO2E, CO20, CO2002, CO2C, CO2004>>

\* the elements of list at the positions in S, in the order of list
RECURSIVE Pick(_, _, _)
Pick(list, S, n) ==
  IF n > Len(list) THEN <<>>
  ELSE (IF n \in S THEN <<list[n]>> ELSE <<>>) \o Pick(list, S, n + 1)

SubLists(list) == {Pick(list, S, 1) : S \in SUBSET DOMAIN list}

SynergyCO2Lists == SubLists(AllTypes)

(***************************************************************************)
(* The overlap route: GET fetches the records of both facility APIs,       *)
(* filters them with DataValidator and hands the rest to the engine        *)
(***************************************************************************)
\* typeof of the fields of a record as it is fetched
Typed == [id |-> "string", name |-> "string", latitude |-> "number",
          longitude |-> "number", amount |-> "number"]
NoName == [Typed EXCEPT !.name = "undefined"]

\* a fetched record: the facility with its name, its status and the types
\* of its fields (amount for capacity or co2EmissionRate)
FetchedAcetic(facility, operationalStatus, typeof) ==
  [id |-> facility.id, latitude |-> facility.latitude,
   longitude |-> facility.longitude, capacity |-> facility.capacity,
   name |-> "plant", operationalStatus |-> operationalStatus, typeof |-> typeof]

FetchedCO2(facility, operationalStatus, typeof) ==
  [id |-> facility.id, latitude |-> facility.latitude,
   longitude |-> facility.longitude, co2EmissionRate |-> facility.co2EmissionRate,
   facilityType |-> facility.facilityType,
   name |-> "emitter", operationalStatus |-> operationalStatus, typeof |-> typeof]

\* a variant of the validator that lets a plant without capacity pass
validateAceticFacilityNoCapacity(facility) ==
  /\ facility.typeof.id = "string"
  /\ facility.typeof.name = "string"
  /\ facility.typeof.latitude = "number"
  /\ facility.typeof.longitude = "number"
  /\ facility.typeof.amount = "number"
  /\ facility.operationalStatus \in {"active", "inactive", "planned"}
  /\ validateCoordinates(facility.latitude, facility.longitude)
  /\ Geq(facility.capacity, 0)

\* DataValidator.validateAceticFacility
validateAceticFacility(facility) ==
  /\ facility.typeof.id = "string"
  /\ facility.typeof.name = "string"
  /\ facility.typeof.latitude = "number"
  /\ facility.typeof.longitude = "number"
  /\ facility.typeof.amount = "number"
  /\ facility.operationalStatus \in {"active", "inactive", "planned"}
  /\ validateCoordinates(facility.latitude, facility.longitude)
  /\ Gt(facility.capacity, 0)

\* DataValidator.validateCO2Facility
validateCO2Facility(facility) ==
  /\ facility.typeof.id = "string"
  /\ facility.typeof.name = "string"
  /\ facility.typeof.latitude = "number"
  /\ facility.typeof.longitude = "number"
  /\ facility.typeof.amount = "number"
  /\ facility.facilityType \in {"petrochemical", "refinery", "steel", "cement", "power"}
  /\ facility.operationalStatus \in {"active", "inactive", "planned"}
  /\ validateCoordinates(facility.latitude, facility.longitude)
  /\ Gt(facility.co2EmissionRate, 0)

\* what the plant API may return: aa-001 and aa-n as they are, a plant at
\* latitude 91, the plant without capacity, and a plant that was closed
FetchedAceticRecords ==
  <<FetchedAcetic(AA001, "active", Typed),
    FetchedAcetic(AAN, "planned", Typed),
    FetchedAcetic(AceticAcidFacility("aa-91", 910000, -953698, 500000), "active", Typed),
    FetchedAcetic(AA0, "active", Typed),
    FetchedAcetic(AceticAcidFacility("aa-closed", 297604, -953698, 500000),
                  "decommissioned", Typed)>>

\* what the emitter API may return: co2-001 as it is, the emitter at
\* longitude -185, the emitter without emissions, an emitter of an unknown
\* type, and one without a name
FetchedCO2Records ==
  <<FetchedCO2(CO2001, "inactive", Typed),
    FetchedCO2(CO2X, "active", Typed),
    FetchedCO2(CO20, "active", Typed),
    FetchedCO2(CO2EmitterFacility("co2-chem", 297604, -953698, 2500000, "chemical"),
               "active", Typed),
    FetchedCO2(CO2001, "active", NoName)>>

\* GET of the overlap route with the default parameters, up to the call of
\* generateSiteRecommendations
GET(k) ==
  \E acetic \in SubLists(FetchedAceticRecords), co2 \in SubLists(FetchedCO2Records) :
     /\ fetched' = [acetic |-> acetic, co2 |-> co2]
     /\ Enter(k, [acetic |-> SelectSeq(acetic, validateAceticFacility),
                  co2 |-> SelectSeq(co2, validateCO2Facility),
                  maxDistance |-> 50000, minScore |-> 0,
                  weights |-> SCORING_WEIGHTS, seed |-> 1])

NextRoute ==
  \/ GET(1)
  \/ ProcessPair(1)
  \/ Return(1)

SpecRoute == Init /\ [][NextRoute]_vars

\* the function has not been applied yet; it is applied to in and returns out
Applied(fn, in, out) ==
  /\ probe = NoProbe
  /\ probe' = [fn |-> fn, in |-> in, out |-> out]
  /\ UNCHANGED <<rng, pc, aceticFacilities, co2Facilities, maxDistance, minScore,
                 weights, seed, ai, ci, sites, siteId, result, pairs,
                 fetched, pageVars>>

ApplySynergies ==
  /\ probe = NoProbe
  /\ \E al \in AceticLists, cl \in SynergyCO2Lists :
        Applied("analyzeFacilitySynergies", <<al, cl>>, analyzeFacilitySynergies(al, cl))

\* coordinates on, just inside and just outside the edges of the boxes, in
\* their middles and beyond them, and the coordinate that is no number
EdgeOffsets == {-1, 0, 1}
RegionLatitudes ==
  {Deg(n) + e : n \in {24, 25, 32, 35, 38, 39, 42, 45, 47, 49, 50}, e \in EdgeOffsets}
    \cup {NaN}
RegionLongitudes ==
  {Deg(n) + e : n \in {-126, -125, -114, -97, -90, -87, -85, -80, -69, -68},
                e \in EdgeOffsets}
    \cup {NaN}

ApplyRegion ==
  /\ probe = NoProbe
  /\ \E lat \in RegionLatitudes, lon \in RegionLongitudes :
        Applied("getGeographicRegion", <<lat, lon>>, getGeographicRegion(lat, lon))

\* every GeographicContext
Contexts ==
  [region : DOMAIN REGULATORY_ZONES,
   nearPort : BOOLEAN, nearHighway : BOOLEAN, nearRail : BOOLEAN,
   nearPipeline : BOOLEAN, nearPowerGrid : BOOLEAN,
   populationDensity : {"low", "medium", "high"},
   industrialZoning : BOOLEAN]

ApplyGovernmental ==
  /\ probe = NoProbe
  /\ \E context \in Contexts :
        Applied("calculateGovernmentalScore", context, calculateGovernmentalScore(context))

ApplyLogistics ==
  /\ probe = NoProbe
  /\ \E context \in Contexts :
        Applied("calculateLogisticsScore", context, calculateLogisticsScore(context))

ApplyPolicyIncentives ==
  /\ probe = NoProbe
  /\ \E context \in Contexts :
        Applied("calculatePolicyIncentivesScore", context,
                calculatePolicyIncentivesScore(context))

ApplyCommunityReadiness ==
  /\ probe = NoProbe
  /\ \E context \in Contexts :
        Applied("calculateCommunityReadinessScore", context,
                calculateCommunityReadinessScore(context))

(***************************************************************************)
(* DataExporter.toCSV.  A string is the sequence of its characters.        *)
(***************************************************************************)
Digit == <<"0", "1", "2", "3", "4", "5", "6", "7", "8", "9">>

\* the decimal digits of n
DigitsOf(n) ==
  LET D[m \in Nat] == IF m < 10 THEN <<Digit[m + 1]>>
                      ELSE D[m \div 10] \o <<Digit[(m % 10) + 1]>>
  IN  D[n]

\* the decimal digits of n in at least width places
PadDigits(n, width) ==
  LET P[w \in Nat] == IF w <= Len(DigitsOf(n)) THEN DigitsOf(n) ELSE <<"0">> \o P[w - 1]
  IN  P[width]

\* text without the zeros at its end
StripZeros(text) ==
  LET S[n \in Nat] == IF n = 0 THEN <<>>
                      ELSE IF text[n] = "0" THEN S[n - 1] ELSE SubSeq(text, 1, n)
  IN  S[Len(text)]

NaNText == <<"N", "a", "N">>

\* x.toFixed(6) for a coordinate x (1e-4 degree): six decimals
toFixed(x) ==
  IF x = NaN THEN NaNText
  ELSE (IF x < 0 THEN <<"-">> ELSE <<>>) \o DigitsOf(Abs(x) \div 10000) \o <<".">>
       \o PadDigits(Abs(x) % 10000, 4) \o <<"0", "0">>

\* x.toString() for a number x >= 0 that has places decimals in the model:
\* the shortest decimal, without a point if it is an integer
toString(x, places) ==
  LET scale == 10 ^ places
      decimals == StripZeros(PadDigits(x % scale, places))
  IN  IF x = NaN THEN NaNText
      ELSE DigitsOf(x \div scale)
           \o (IF places = 0 \/ decimals = <<>> THEN <<>> ELSE <<".">> \o decimals)

\* list.join(delimiter)
Join(list, delimiter) ==
  LET J[n \in Nat] == IF n = 0 THEN <<>>
                      ELSE IF n = 1 THEN list[1]
                      ELSE J[n - 1] \o <<delimiter>> \o list[n]
  IN  J[Len(list)]

headers ==
  <<<<"S", "i", "t", "e", " ", "I", "D">>,
    <<"L", "a", "t", "i", "t", "u", "d", "e">>,
    <<"L", "o", "n", "g", "i", "t", "u", "d", "e">>,
    <<"D", "i", "s", "t", "a", "n", "c", "e", " ", "(", "k", "m", ")">>,
    <<"G", "o", "v", "e", "r", "n", "m", "e", "n", "t", "a", "l", " ", "S",
      "c", "o", "r", "e">>,
    <<"L", "o", "g", "i", "s", "t", "i", "c", "s", " ", "S", "c", "o", "r",
      "e">>,
    <<"P", "o", "l", "i", "c", "y", " ", "I", "n", "c", "e", "n", "t", "i",
      "v", "e", "s", " ", "S", "c", "o", "r", "e">>,
    <<"C", "o", "m", "m", "u", "n", "i", "t", "y", " ", "R", "e", "a", "d",
      "i", "n", "e", "s", "s", " ", "S", "c", "o", "r", "e">>,
    <<"O", "v", "e", "r", "a", "l", "l", " ", "S", "c", "o", "r", "e">>,
    <<"A", "c", "e", "t", "i", "c", " ", "A", "c", "i", "d", " ", "F", "a",
      "c", "i", "l", "i", "t", "i", "e", "s">>,
    <<"C", "O", "2", " ", "E", "m", "i", "t", "t", "e", "r", " ", "F", "a",
      "c", "i", "l", "i", "t", "i", "e", "s">>>>

\* the row of a site
CSVRow(site) ==
  <<site.id,
    toFixed(site.latitude),
    toFixed(site.longitude),
    toString(site.distance, 3),
    toString(site.governmentalScore, 1),
    toString(site.logisticsScore, 1),
    toString(site.policyIncentivesScore, 1),
    toString(site.communityReadinessScore, 1),
    toString(site.overallScore, 0),
    Join(site.aceticAcidFacilities, ";"),
    Join(site.co2EmitterFacilities, ";")>>

\* [headers, ...rows].map((row) => row.join(",")).join("\n")
toCSV(list) ==
  Join(<<Join(headers, ",")>> \o [n \in 1..Len(list) |-> Join(CSVRow(list[n]), ",")],
       "\n")

\* `site-${siteId}` as a string
SiteIdText(n) == <<"s", "i", "t", "e", "-">> \o DigitsOf(n)

\* sites to export: the site of aa-001 and co2-001; a site of two plants and
\* two emitters whose coordinates are no numbers; and a site of a plant whose
\* id is "aa,001"
ExportSite(n, latitude, longitude, distance, aceticIds, co2Ids) ==
  [id |-> SiteIdText(n), latitude |-> latitude, longitude |-> longitude,
   aceticAcidFacilities |-> aceticIds, co2EmitterFacilities |-> co2Ids,
   distance |-> distance, governmentalScore |-> 1000, logisticsScore |-> 969,
   policyIncentivesScore |-> 750, communityReadinessScore |-> 300,
   overallScore |-> 79]

AA001Text == <<"a", "a", "-", "0", "0", "1">>
AA002Text == <<"a", "a", "-", "0", "0", "2">>
CO2001Text == <<"c", "o", "2", "-", "0", "0", "1">>
CO2002Text == <<"c", "o", "2", "-", "0", "0", "2">>
AACommaText == <<"a", "a", ",", "0", "0", "1">>

ExportSites ==
  {ExportSite(1, 297604, -953698, 0, <<AA001Text>>, <<CO2001Text>>),
   ExportSite(2, NaN, NaN, 35680, <<AA001Text, AA002Text>>, <<CO2001Text, CO2002Text>>),
   ExportSite(12, 5000, -1200001, 120500, <<AACommaText>>, <<CO2002Text>>)}

MaxExport == 2

ApplyToCSV ==
  /\ probe = NoProbe
  /\ \E list \in ListsUpTo(ExportSites, MaxExport) : Applied("toCSV", list, toCSV(list))

\* Houston, Chicago and New York of the mock data, the origin, Sydney, and
\* two places opposite each other on the globe
DistanceCoordinates ==
  {<<297604, -953698>>, <<418781, -876298>>, <<407128, -740060>>, <<0, 0>>,
   <<-338688, 1512093>>, <<-526000, 0>>, <<526000, 1800000>>}

ApplyDistance ==
  /\ probe = NoProbe
  /\ \E A \in DistanceCoordinates, B \in DistanceCoordinates :
        Applied("calculateDistance", <<A, B>>, calculateDistance(A[1], A[2], B[1], B[2]))

\* the scores of a site from the context drawn for it and the bonus of
\* its pair: the scores of the context, the adjusted scores and the overall
\* score of these
ApplyAdjustScores ==
  /\ probe = NoProbe
  /\ \E context \in Contexts :
        \E scores \in {scoreContext(context)} :
           \E synergyBonus \in 0..25 :
              \E adjustedScores \in {adjustScores(scores, synergyBonus)} :
                 Applied("adjustScores", <<context, synergyBonus>>,
                         [scores |-> scores,
                          adjustedScores |-> adjustedScores,
                          overallScore |-> calculateOverallScore(adjustedScores)])

InitFunctions == Init /\ rng = 0

NextFunctions ==
  \/ ApplySynergies
  \/ ApplyRegion
  \/ ApplyGovernmental
  \/ ApplyLogistics
  \/ ApplyPolicyIncentives
  \/ ApplyCommunityReadiness
  \/ ApplyDistance
  \/ ApplyToCSV
  \/ ApplyAdjustScores

SpecFunctions == InitFunctions /\ [][NextFunctions]_vars

(***************************************************************************)
(* The dashboard: the sites selected for comparison                        *)
(***************************************************************************)
\* the sites a ranking may list
MaxListed == 4

\* the sites the table may show over time: after a refetch a site of the
\* same id may be another site, here with another score
ListedSites == [id : {SiteName(n) : n \in 1..MaxListed}, overallScore : {80, 90}]

\* a variant that keeps four
LastFour(list) == IF Len(list) > 4 THEN SubSeq(list, Len(list) - 3, Len(list)) ELSE list

\* list.slice(-3)
LastThree(list) == IF Len(list) > 3 THEN SubSeq(list, Len(list) - 2, Len(list)) ELSE list

\* prev.filter((s) => s.id !== id)
WithoutId(prev, id) ==
  LET Other(s) == s.id # id
  IN  SelectSeq(prev, Other)

handleSiteSelect(site) ==
  /\ selectedSites' =
       IF \E n \in DOMAIN selectedSites : selectedSites[n].id = site.id
         THEN WithoutId(selectedSites, site.id)
         ELSE LastThree(Append(selectedSites, site))
  /\ UNCHANGED <<engineVars, config, saveStatus, saving, timers>>

\* onRemoveSite of the comparison
onRemoveSite(id) ==
  /\ selectedSites' = WithoutId(selectedSites, id)
  /\ UNCHANGED <<engineVars, config, saveStatus, saving, timers>>

clearSelection ==
  /\ selectedSites' = <<>>
  /\ UNCHANGED <<engineVars, config, saveStatus, saving, timers>>

NextDashboard ==
  \/ \E site \in ListedSites : handleSiteSelect(site)
  \/ \E n \in 1..MaxListed : onRemoveSite(SiteName(n))
  \/ clearSelection

SpecDashboard == InitFunctions /\ [][NextDashboard]_vars

(***************************************************************************)
(* The admin panel.  saving holds the configurations of the calls of       *)
(* saveConfiguration that wait for their mock save, in the order of the    *)
(* calls; timers counts the pending setTimeout(() => setSaveStatus("idle")).*)
(***************************************************************************)
\* the value a slider is moved to, and configurations read from a file:
\* weights that sum to 100.1 and to 100.2
SliderValues == {250}

ImportedConfigs ==
  {[scoringWeights |-> [InitialConfig.scoringWeights EXCEPT !.communityReadiness = w]] :
     w \in {201, 202}}

\* the saves and timers that may be pending at a time
MaxPending == 2

\* Object.values(config.scoringWeights).reduce((sum, weight) => sum + weight, 0)
totalWeight(scoringWeights) ==
  scoringWeights.governmental + scoringWeights.logistics
    + scoringWeights.policyIncentives + scoringWeights.communityReadiness

\* a variant of the rule that tolerates a whole percent
WeightsRejectedLoose(scoringWeights) == Abs(totalWeight(scoringWeights) - 1000) > 10

\* Math.abs(totalWeight - 100) > 0.1
WeightsRejected(scoringWeights) == Abs(totalWeight(scoringWeights) - 1000) > 1

\* onValueChange of the slider of key
onValueChange(key, newValue) ==
  /\ config' = [config EXCEPT !.scoringWeights[key] = newValue]
  /\ UNCHANGED <<engineVars, saveStatus, saving, timers, selectedSites>>

\* importConfiguration: reader.onload sets the configuration of the file
importConfiguration(importedConfig) ==
  /\ config' = importedConfig
  /\ UNCHANGED <<engineVars, saveStatus, saving, timers, selectedSites>>

\* saveConfiguration up to its await; the button is disabled while
\* saveStatus is "saving"; the closure keeps the config it was made with
saveConfiguration ==
  /\ saveStatus # "saving"
  /\ Len(saving) + timers < MaxPending
  /\ saveStatus' = "saving"
  /\ saving' = Append(saving, config)
  /\ UNCHANGED <<engineVars, config, timers, selectedSites>>

\* saveConfiguration after its await: the weights are validated, the
\* status is set and the timer that resets it is started
SaveResolved ==
  /\ saving # <<>>
  /\ saveStatus' = IF WeightsRejected(Head(saving).scoringWeights) THEN "error"
                   ELSE "saved"
  /\ saving' = Tail(saving)
  /\ timers' = timers + 1
  /\ UNCHANGED <<engineVars, config, selectedSites>>

\* () => setSaveStatus("idle")
TimerFired ==
  /\ timers > 0
  /\ saveStatus' = "idle"
  /\ timers' = timers - 1
  /\ UNCHANGED <<engineVars, config, saving, selectedSites>>

NextAdmin ==
  \/ \E key \in DOMAIN SCORING_WEIGHTS, newValue \in SliderValues :
        onValueChange(key, newValue)
  \/ \E importedConfig \in ImportedConfigs : importConfiguration(importedConfig)
  \/ saveConfiguration
  \/ SaveResolved
  \/ TimerFired

\* a promise that was resolved and a timer that ran out get their turn
SpecAdmin ==
  InitFunctions /\ [][NextAdmin]_vars /\ WF_vars(SaveResolved) /\ WF_vars(TimerFired)
(***************************************************************************)
(* Properties of generateSiteRecommendations                               *)
(***************************************************************************)
\* the sites of call k as a set, and the pairs its loop has processed
SitesOf(k) == {sites[k][n] : n \in DOMAIN sites[k]}
PairsOf(k) == {pairs[k][n] : n \in DOMAIN pairs[k]}

\* C1 as stated: every site of a call has a distance field <= maxDistance
\* and an overallScore >= minScore.
C1_FieldWithinMaxDistance ==
  \A k \in Calls : \A site \in SitesOf(k) :
     /\ site.distance <= maxDistance[k]
     /\ site.overallScore >= minScore[k]

\* C1 amended: a pair farther apart than maxDistance never produces a site;
\* the pair of every site has its (unrounded) distance <= maxDistance and the
\* site has overallScore >= minScore; the distance field is that distance
\* rounded to 2 decimals, hence at most maxDistance + 0.005, and <= maxDistance
\* when maxDistance is a multiple of 0.01.
C1_PairWithinMaxDistance ==
  \A k \in Calls :
     /\ \A p \in PairsOf(k) :
          /\ p.distance > maxDistance[k] => ~p.emit
          /\ p.emit =>
               /\ p.distance <= maxDistance[k]
               /\ \E site \in SitesOf(k) :
                    /\ site.id = p.id
                    /\ site.distance % 10 = 0
                    /\ site.distance - p.distance \in -4..5
     /\ \A site \in SitesOf(k) :
          /\ \E p \in PairsOf(k) : p.emit /\ p.id = site.id
          /\ site.distance <= maxDistance[k] + 5
          /\ maxDistance[k] % 10 = 0 => site.distance <= maxDistance[k]
          /\ site.overallScore >= minScore[k]

\* a call has returned a site and has discarded a pair for its distance and
\* a pair for its score
C1_Witness ==
  /\ pc[1] = "done"
  /\ result[1] # <<>>
  /\ \E p \in PairsOf(1) : p.distance > maxDistance[1]
  /\ \E p \in PairsOf(1) : p.within /\ p.overallScore < minScore[1]

\* C2: the returned list is non-increasing in overallScore over its full
\* length.
C2_NonIncreasing ==
  \A k \in Calls :
     pc[k] = "done" =>
       \A i \in 1..(Len(result[k]) - 1) :
          result[k][i].overallScore >= result[k][i + 1].overallScore

\* a returned list whose first site was not generated first and scores more
\* than its second
C2_Witness ==
  /\ pc[1] = "done"
  /\ Len(result[1]) >= 2
  /\ result[1][1].id # SiteName(1)
  /\ result[1][1].overallScore > result[1][2].overallScore

\* the n-th pair of the cross product of call k: outer index and inner index
OuterIndex(k, n) == ((n - 1) \div Len(co2Facilities[k])) + 1
InnerIndex(k, n) == ((n - 1) % Len(co2Facilities[k])) + 1

\* C3: the loop visits every pair of the cross product, each once and in
\* order; a pair whose distance is <= maxDistance (equal included) is scored,
\* and a scored pair whose overallScore is >= minScore (equal included) has
\* exactly one site, which names the two facilities of the pair.
C3_InclusiveAndComplete ==
  \A k \in Calls :
     /\ pc[k] = "done" => Len(pairs[k]) = Len(aceticFacilities[k]) * Len(co2Facilities[k])
     /\ \A n \in DOMAIN pairs[k] :
          LET p == pairs[k][n]
              a == aceticFacilities[k][p.a]
              c == co2Facilities[k][p.c]
          IN  /\ p.a = OuterIndex(k, n)
              /\ p.c = InnerIndex(k, n)
              /\ p.distance = distanceBetween(a.latitude, a.longitude,
                                              c.latitude, c.longitude)
              /\ p.distance <= maxDistance[k] => p.within
              /\ (p.within /\ p.overallScore >= minScore[k]) =>
                   Cardinality({i \in DOMAIN sites[k] :
                                  /\ sites[k][i].aceticAcidFacilities = <<a.id>>
                                  /\ sites[k][i].co2EmitterFacilities = <<c.id>>
                                  /\ sites[k][i].overallScore = p.overallScore}) = 1

\* a call has returned the site of a pair exactly at maxDistance whose score
\* is exactly minScore
C3_Witness ==
  /\ pc[1] = "done"
  /\ \E p \in PairsOf(1) :
       /\ p.distance = maxDistance[1]
       /\ p.distance > 0
       /\ p.overallScore = minScore[1]
       /\ minScore[1] > 0
       /\ \E i \in DOMAIN result[1] : result[1][i].id = p.id

\* the four sub-scores of a site (1e-1)
SubScores(site) ==
  {site.governmentalScore, site.logisticsScore, site.policyIncentivesScore,
   site.communityReadinessScore}

\* C4: every sub-score of every site lies in [0,100], the boosted ones
\* included, and so does overallScore.
C4_ScoresInRange ==
  \A k \in Calls : \A site \in SitesOf(k) :
     /\ \A score \in SubScores(site) : 0 <= score /\ score <= 1000
     /\ 0 <= site.overallScore /\ site.overallScore <= 100

\* a site whose boosted logistics score is at the cap and whose boosted
\* governmental score is below it
C4_Witness ==
  \E site \in SitesOf(1) :
     /\ site.logisticsScore = 1000
     /\ site.governmentalScore < 1000
     /\ site.governmentalScore % 10 # 0

\* the weighted sum of the sub-scores stored in a site (1e-3)
StoredWeightedSum(site) ==
  30 * site.governmentalScore + 25 * site.logisticsScore
    + 25 * site.policyIncentivesScore + 20 * site.communityReadinessScore

\* C5: overallScore is the weighted sum 0.30 g + 0.25 l + 0.25 p + 0.20 c of
\* the sub-scores stored in the same site, rounded to the nearest integer
\* (halves up), and the weights sum to 1.0.
C5_OverallIsRoundedSum ==
  /\ SCORING_WEIGHTS.governmental + SCORING_WEIGHTS.logistics
       + SCORING_WEIGHTS.policyIncentives + SCORING_WEIGHTS.communityReadiness = 100
  /\ \A k \in Calls : \A site \in SitesOf(k) :
       /\ 1000 * site.overallScore - 500 <= StoredWeightedSum(site)
       /\ StoredWeightedSum(site) < 1000 * site.overallScore + 500

\* a site with a boosted sub-score whose weighted sum is rounded up
C5_Witness ==
  \E site \in SitesOf(1) :
     /\ site.governmentalScore % 10 # 0
     /\ StoredWeightedSum(site) % 1000 >= 500

\* the arguments of call k, with the weights and the seed its caller holds
InputsOf(k) ==
  <<aceticFacilities[k], co2Facilities[k], maxDistance[k], minScore[k],
    weights[k], seed[k]>>

\* C6: two runs with the same facility lists, thresholds, weights and seed
\* return identical output.
C6_SameInputsSameOutput ==
  (pc[1] = "done" /\ pc[2] = "done" /\ InputsOf(1) = InputsOf(2))
    => result[1] = result[2]

\* call k takes no part in the step: it neither enters, nor turns its loop,
\* nor returns
Idles(k) == pc'[k] = pc[k] /\ ai'[k] = ai[k] /\ ci'[k] = ci[k]

\* the ids of the sites of call k after the step
IdsAfter(k) == {sites'[k][n].id : n \in DOMAIN sites'[k]}

EmittedUpTo(k, n) == Cardinality({m \in 1..n : pairs[k][m].emit})

\* C8: within a call the pair emitted as the j-th, in the order of the
\* loops, gets site-j and a discarded pair gets no id: the ids of the sites
\* are exactly site-1 .. site-k for k sites, each once.
C8_SequentialIds ==
  \A k \in Calls :
     /\ \A n \in DOMAIN pairs[k] :
          IF pairs[k][n].emit
            THEN pairs[k][n].id = SiteName(EmittedUpTo(k, n))
            ELSE pairs[k][n].id = <<>>
     /\ Len(sites[k]) = EmittedUpTo(k, Len(pairs[k]))
     /\ \A j \in 1..Len(sites[k]) :
          Cardinality({i \in DOMAIN sites[k] : sites[k][i].id = SiteName(j)}) = 1
     /\ pc[k] = "done" =>
          /\ Len(result[k]) = Len(sites[k])
          /\ \A j \in 1..Len(result[k]) :
               Cardinality({i \in DOMAIN result[k] : result[k][i].id = SiteName(j)}) = 1

\* a call has returned two sites or more, with a discarded pair before an
\* emitted one that takes the next free number
C8_Witness ==
  /\ pc[1] = "done"
  /\ Len(result[1]) >= 2
  /\ \E m, n \in DOMAIN pairs[1] :
       m < n /\ ~pairs[1][m].emit /\ pairs[1][n].emit
         /\ pairs[1][n].id = SiteName(EmittedUpTo(1, m) + 1)

\* the position in the loops of call k of the pair that site was pushed for
PairIndex(k, site) == CHOOSE n \in DOMAIN pairs[k] : pairs[k][n].id = site.id

\* C9: of two returned sites with equal overallScore, the one generated
\* earlier (the earlier pair of the loops, the smaller site number) comes
\* first.
C9_StableSort ==
  \A k \in Calls :
     pc[k] = "done" =>
       \A i, j \in DOMAIN result[k] :
          (i < j /\ result[k][i].overallScore = result[k][j].overallScore) =>
             /\ PairIndex(k, result[k][i]) < PairIndex(k, result[k][j])
             /\ result[k][i].id[2] < result[k][j].id[2]

\* a returned list with a tie behind a site that the sort has moved to the
\* front
C9_Witness ==
  /\ pc[1] = "done"
  /\ Len(result[1]) >= 3
  /\ result[1][1].id # SiteName(1)
  /\ \E i, j \in DOMAIN result[1] :
       i < j /\ result[1][i].overallScore = result[1][j].overallScore

\* the sum of a weight configuration (1e-2)
WeightSum(w) ==
  w.governmental + w.logistics + w.policyIncentives + w.communityReadiness

\* C10: a call whose weight configuration does not sum to 1.0 processes no
\* pair, emits no site and does not return a list.
C10_BadWeightsRejected ==
  \A k \in Calls :
     (pc[k] # "idle" /\ WeightSum(weights[k]) # 100) =>
        /\ pairs[k] = <<>>
        /\ sites[k] = <<>>
        /\ pc[k] # "done"

\* C11: a call with an empty acetic list or an empty CO2 list, whatever
\* maxDistance and minScore, has no pair to process, so its loop ends at
\* once without a site, and what it returns is the empty list.
C11_EmptyInputEmptyResult ==
  \A k \in Calls :
     (pc[k] # "idle" /\ (aceticFacilities[k] = <<>> \/ co2Facilities[k] = <<>>)) =>
        /\ ~MorePairs(k)
        /\ pairs[k] = <<>>
        /\ sites[k] = <<>>
        /\ pc[k] \in {"loop", "done"}
        /\ pc[k] = "done" => result[k] = <<>>

\* a call with acetic facilities, no CO2 facility and thresholds other than
\* the defaults has returned
C11_Witness ==
  /\ pc[1] = "done"
  /\ Len(aceticFacilities[1]) = 2
  /\ co2Facilities[1] = <<>>
  /\ maxDistance[1] # 50000
  /\ minScore[1] > 0
  /\ result[1] = <<>>

\* the probe is an application of fn
Probed(fn) == probe.fn = fn

\* the distinct facility types of a list of emitters
TypesOf(cl) == {cl[n].facilityType : n \in DOMAIN cl}

\* C12: analyzeFacilitySynergies(aceticList, co2List) is
\* min(25, A + E + min(3 T, 15)), where A is 10 if the summed capacity is
\* strictly above 400,000 and else 0, E is 10 if the summed emission rate is
\* strictly above 2,000,000 and else 0, and T is the number of distinct
\* facility types of co2List; it is an integer in [0,25].
C12_SynergyFormula ==
  Probed("analyzeFacilitySynergies") =>
    LET al == probe.in[1]
        cl == probe.in[2]
        A == IF SumField(al, "capacity") > 400000 THEN 10 ELSE 0
        E == IF SumField(cl, "co2EmissionRate") > 2000000 THEN 10 ELSE 0
        T == Cardinality(TypesOf(cl))
        diversity == IF 3 * T < 15 THEN 3 * T ELSE 15
    IN  /\ probe.out = (IF A + E + diversity < 25 THEN A + E + diversity ELSE 25)
        /\ probe.out \in 0..25

\* both sums are exactly at their thresholds, over two facilities each, and
\* only the two types earn a bonus
C12_Witness ==
  /\ Probed("analyzeFacilitySynergies")
  /\ Len(probe.in[1]) = 2 /\ SumField(probe.in[1], "capacity") = 400000
  /\ Len(probe.in[2]) = 2 /\ SumField(probe.in[2], "co2EmissionRate") = 2000000
  /\ probe.out = 6

\* the site of call k pushed for the pair logged as p
SiteOf(k, p) == CHOOSE site \in SitesOf(k) : site.id = p.id

\* score + tenths/10 of the bonus, at most 100
Capped(score, bonus, tenths) ==
  IF score + tenths * bonus < 1000 THEN score + tenths * bonus ELSE 1000

\* C13: with b the synergy bonus of the single pair, the emitted
\* governmentalScore is min(100, base governmental + 0.3 b), the emitted
\* logisticsScore is min(100, base logistics + 0.4 b), and the emitted
\* policyIncentivesScore and communityReadinessScore are the base values the
\* scoring model returned.
C13_BoostFrame ==
  \A k \in Calls : \A p \in PairsOf(k) :
     p.emit =>
       LET site == SiteOf(k, p)
           b == p.synergyBonus
       IN  /\ b = analyzeFacilitySynergies(<<aceticFacilities[k][p.a]>>,
                                           <<co2Facilities[k][p.c]>>)
           /\ site.governmentalScore = Capped(p.scores.governmental, b, 3)
           /\ site.logisticsScore = Capped(p.scores.logistics, b, 4)
           /\ site.policyIncentivesScore = p.scores.policyIncentives
           /\ site.communityReadinessScore = p.scores.communityReadiness

\* a site with the full bonus of 23 whose governmental score was raised
\* below the cap, whose logistics score was cut at the cap, and whose policy
\* and community scores are below 100
C13_Witness ==
  \E p \in PairsOf(1) :
     /\ p.emit
     /\ p.synergyBonus = 23
     /\ SiteOf(1, p).governmentalScore = p.scores.governmental + 69
     /\ p.scores.logistics + 92 > 1000
     /\ SiteOf(1, p).logisticsScore = 1000
     /\ SiteOf(1, p).policyIncentivesScore < 1000
     /\ SiteOf(1, p).communityReadinessScore < 1000

\* lat in [latLow, latHigh] and lon in [lonLow, lonHigh], in whole degrees
InBox(lat, lon, latLow, latHigh, lonLow, lonHigh) ==
  /\ lat # NaN /\ lon # NaN
  /\ latLow * 10000 <= lat /\ lat <= latHigh * 10000
  /\ lonLow * 10000 <= lon /\ lon <= lonHigh * 10000

\* the boxes a coordinate lies in
BoxesOf(lat, lon) ==
  {zone \in {"gulf-coast", "midwest", "northeast", "west-coast"} :
     \/ zone = "gulf-coast" /\ InBox(lat, lon, 25, 32, -97, -87)
     \/ zone = "midwest" /\ InBox(lat, lon, 38, 47, -90, -80)
     \/ zone = "northeast" /\ InBox(lat, lon, 39, 45, -80, -69)
     \/ zone = "west-coast" /\ InBox(lat, lon, 32, 49, -125, -114)}

\* C14: getGeographicRegion maps every coordinate to one of the five zone
\* keys: the first of gulf-coast, midwest, northeast, west-coast whose box
\* holds the coordinate, and southeast if none does; a point in both the
\* midwest and the northeast box is midwest.
C14_RegionByPriority ==
  Probed("getGeographicRegion") =>
    LET boxes == BoxesOf(probe.in[1], probe.in[2])
    IN  /\ probe.out \in {"gulf-coast", "midwest", "northeast", "west-coast", "southeast"}
        /\ probe.out \in DOMAIN REGULATORY_ZONES
        /\ probe.out = (IF "gulf-coast" \in boxes THEN "gulf-coast"
                        ELSE IF "midwest" \in boxes THEN "midwest"
                        ELSE IF "northeast" \in boxes THEN "northeast"
                        ELSE IF "west-coast" \in boxes THEN "west-coast"
                        ELSE "southeast")
        /\ {"midwest", "northeast"} \subseteq boxes => probe.out = "midwest"

\* the point at latitude 42, longitude -80 lies in the midwest and in the
\* northeast box and is midwest
C14_Witness ==
  /\ Probed("getGeographicRegion")
  /\ probe.in = <<420000, -800000>>
  /\ BoxesOf(probe.in[1], probe.in[2]) = {"midwest", "northeast"}
  /\ probe.out = "midwest"

\* x points cut to [0,100], in the unit of the scores (1e-1)
ClampedPoints(x) == 10 * (IF x < 0 THEN 0 ELSE IF x > 100 THEN 100 ELSE x)

\* amount if the flag is set
If(flag, amount) == IF flag THEN amount ELSE 0

\* the amount for the zone of the context
ByZone(context, gulfCoast, midwest, northeast, westCoast, southeast) ==
  CASE context.region = "gulf-coast" -> gulfCoast
    [] context.region = "midwest" -> midwest
    [] context.region = "northeast" -> northeast
    [] context.region = "west-coast" -> westCoast
    [] context.region = "southeast" -> southeast

\* the amount for the population density of the context
ByDensity(context, low, medium, high) ==
  CASE context.populationDensity = "low" -> low
    [] context.populationDensity = "medium" -> medium
    [] context.populationDensity = "high" -> high

\* C15: calculateGovernmentalScore is, cut to [0,100], the zone's base
\* (85, 70, 60, 65, 80), +10 if industrialZoning else -15, +5 / -5 / -15 for
\* density low / medium / high, +5 if nearPort, +10 if nearPipeline, +5 if
\* nearPowerGrid; nearHighway and nearRail do not enter.
C15_GovernmentalScore ==
  Probed("calculateGovernmentalScore") =>
    LET c == probe.in
    IN  probe.out = ClampedPoints(ByZone(c, 85, 70, 60, 65, 80)
                                  + (IF c.industrialZoning THEN 10 ELSE -15)
                                  + ByDensity(c, 5, -5, -15)
                                  + If(c.nearPort, 5) + If(c.nearPipeline, 10)
                                  + If(c.nearPowerGrid, 5))

\* northeast, not zoned, medium density, port and highway and rail only:
\* 60 - 15 - 5 + 5
C15_Witness ==
  /\ Probed("calculateGovernmentalScore")
  /\ probe.in = [region |-> "northeast", nearPort |-> TRUE, nearHighway |-> TRUE,
                 nearRail |-> TRUE, nearPipeline |-> FALSE, nearPowerGrid |-> FALSE,
                 populationDensity |-> "medium", industrialZoning |-> FALSE]
  /\ probe.out = 450

\* C16: calculateLogisticsScore is, cut to [0,100], the zone's base
\* (90, 85, 70, 75, 80), +25 if nearPort, +15 if nearHighway, +20 if nearRail,
\* +30 if nearPipeline, +10 if nearPowerGrid, -10 if density is high;
\* industrialZoning and low or medium density do not enter.
C16_LogisticsScore ==
  Probed("calculateLogisticsScore") =>
    LET c == probe.in
    IN  probe.out = ClampedPoints(ByZone(c, 90, 85, 70, 75, 80)
                                  + If(c.nearPort, 25) + If(c.nearHighway, 15)
                                  + If(c.nearRail, 20) + If(c.nearPipeline, 30)
                                  + If(c.nearPowerGrid, 10)
                                  + If(c.populationDensity = "high", -10))

\* northeast, zoned, medium density, highway only: 70 + 15
C16_Witness ==
  /\ Probed("calculateLogisticsScore")
  /\ probe.in = [region |-> "northeast", nearPort |-> FALSE, nearHighway |-> TRUE,
                 nearRail |-> FALSE, nearPipeline |-> FALSE, nearPowerGrid |-> FALSE,
                 populationDensity |-> "medium", industrialZoning |-> TRUE]
  /\ probe.out = 850

\* C17: calculatePolicyIncentivesScore is, cut to [0,100], the zone's base
\* (75, 60, 80, 90, 70), +15 if industrialZoning and nothing otherwise,
\* +10 / +5 / -5 for density low / medium / high; no infrastructure flag
\* enters.
C17_PolicyIncentivesScore ==
  Probed("calculatePolicyIncentivesScore") =>
    LET c == probe.in
    IN  probe.out = ClampedPoints(ByZone(c, 75, 60, 80, 90, 70)
                                  + If(c.industrialZoning, 15)
                                  + ByDensity(c, 10, 5, -5))

\* midwest, not zoned, high density, every infrastructure flag set: 60 - 5
C17_Witness ==
  /\ Probed("calculatePolicyIncentivesScore")
  /\ probe.in = [region |-> "midwest", nearPort |-> TRUE, nearHighway |-> TRUE,
                 nearRail |-> TRUE, nearPipeline |-> TRUE, nearPowerGrid |-> TRUE,
                 populationDensity |-> "high", industrialZoning |-> FALSE]
  /\ probe.out = 550

\* C18: calculateCommunityReadinessScore is, cut to [0,100], 50 whatever the
\* zone, +20 if industrialZoning, +15 / +5 / -20 for density low / medium /
\* high, +10 once if any of nearPort, nearRail, nearPipeline; nearHighway and
\* nearPowerGrid do not enter.
C18_CommunityReadinessScore ==
  Probed("calculateCommunityReadinessScore") =>
    LET c == probe.in
    IN  probe.out = ClampedPoints(50 + If(c.industrialZoning, 20)
                                  + ByDensity(c, 15, 5, -20)
                                  + If(c.nearPort \/ c.nearRail \/ c.nearPipeline, 10))

\* west-coast, zoned, low density, port and rail and pipeline all set:
\* 50 + 20 + 15 + 10
C18_Witness ==
  /\ Probed("calculateCommunityReadinessScore")
  /\ probe.in = [region |-> "west-coast", nearPort |-> TRUE, nearHighway |-> FALSE,
                 nearRail |-> TRUE, nearPipeline |-> TRUE, nearPowerGrid |-> FALSE,
                 populationDensity |-> "low", industrialZoning |-> TRUE]
  /\ probe.out = 950

\* the weights of the pair logged as p in call k: capacity / 1,000,000 and
\* co2EmissionRate / 10,000,000, both in 1e-2
AceticWeightOf(k, p) == aceticFacilities[k][p.a].capacity \div 10000
CO2WeightOf(k, p) == co2Facilities[k][p.c].co2EmissionRate \div 100000

\* x is (x1 w1 + x2 w2) / (w1 + w2) to the nearest unit of the coordinates
IsWeightedAverage(x, x1, w1, x2, w2) ==
  /\ x # NaN
  /\ w1 + w2 > 0
  /\ 2 * Abs(x * (w1 + w2) - (x1 * w1 + x2 * w2)) <= w1 + w2

\* C19: the latitude and longitude of every emitted site are the averages of
\* the two facilities' coordinates weighted by capacity / 1,000,000 and
\* co2EmissionRate / 10,000,000, and a site of two facilities at the same
\* coordinate is at that coordinate.
C19_WeightedMidpoint ==
  \A k \in Calls : \A p \in PairsOf(k) :
     p.emit =>
       LET a == aceticFacilities[k][p.a]
           c == co2Facilities[k][p.c]
           site == SiteOf(k, p)
       IN  /\ IsWeightedAverage(site.latitude, a.latitude, AceticWeightOf(k, p),
                                c.latitude, CO2WeightOf(k, p))
           /\ IsWeightedAverage(site.longitude, a.longitude, AceticWeightOf(k, p),
                                c.longitude, CO2WeightOf(k, p))
           /\ (a.latitude = c.latitude /\ a.longitude = c.longitude) =>
                (site.latitude = a.latitude /\ site.longitude = a.longitude)

\* C20: a pair within maxDistance whose total weight is zero ends the call
\* with a ComputationError, and no site has a latitude or longitude that is
\* not a number.
C20_ZeroWeightGuarded ==
  \A k \in Calls :
     /\ \A p \in PairsOf(k) :
          (p.within /\ AceticWeightOf(k, p) + CO2WeightOf(k, p) = 0) =>
             pc[k] = "ComputationError"
     /\ \A site \in SitesOf(k) : site.latitude # NaN /\ site.longitude # NaN

(***************************************************************************)
(* Properties of the engine on records that were not validated             *)
(***************************************************************************)
\* the facilities of call k, of both lists
FacilitiesOf(k) ==
  {aceticFacilities[k][n] : n \in DOMAIN aceticFacilities[k]}
    \cup {co2Facilities[k][n] : n \in DOMAIN co2Facilities[k]}

\* call k was given a facility whose coordinates are out of range
GivenInvalidCoordinates(k) ==
  \E f \in FacilitiesOf(k) : ~validateCoordinates(f.latitude, f.longitude)

\* C21: a call that is given a facility with a latitude outside [-90, 90] or
\* a longitude outside [-180, 180] is rejected: it measures no distance,
\* and places no site
C21_InvalidCoordinatesRejected ==
  \A k \in Calls :
     GivenInvalidCoordinates(k) => pairs[k] = <<>> /\ sites[k] = <<>>

(***************************************************************************)
(* The scenario of one plant and one emitter at the same place             *)
(***************************************************************************)
\* call k was given aa-001 and co2-001 of the mock data, which share the
\* coordinate (29.7604, -95.3698), with maxDistance 50 and minScore 0
HoustonScenario(k) ==
  /\ aceticFacilities[k] = <<AA001>>
  /\ co2Facilities[k] = <<CO2001>>
  /\ maxDistance[k] = 50000
  /\ minScore[k] = 0

\* C22: one acetic facility (29.7604, -95.3698, capacity 500000) and one CO2
\* facility at the same coordinate (rate 2500000, petrochemical) with
\* maxDistance 50 and minScore 0 give exactly one site: its id is site-1, its
\* distance 0.00, it lies at the shared coordinate, the synergy bonus is 23,
\* its governmentalScore is min(100, base + 6.9) and its logisticsScore
\* min(100, base + 9.2), whatever context was drawn.
C22_HoustonSite ==
  \A k \in Calls :
     (HoustonScenario(k) /\ pc[k] = "done") =>
        /\ Len(result[k]) = 1
        /\ Len(pairs[k]) = 1
        /\ LET site == result[k][1]
               base == pairs[k][1].scores
           IN  /\ site.id = <<"site-", 1>>
               /\ site.distance = 0
               /\ site.latitude = 297604
               /\ site.longitude = -953698
               /\ site.aceticAcidFacilities = <<"aa-001">>
               /\ site.co2EmitterFacilities = <<"co2-001">>
               /\ pairs[k][1].synergyBonus = 23
               /\ site.governmentalScore =
                    (IF base.governmental + 69 > 1000 THEN 1000
                     ELSE base.governmental + 69)
               /\ site.logisticsScore =
                    (IF base.logistics + 92 > 1000 THEN 1000
                     ELSE base.logistics + 92)

\* the scenario has returned, with a logistics score cut at 100 and a
\* governmental score raised by the whole 6.9
C22_Witness ==
  /\ HoustonScenario(1)
  /\ pc[1] = "done"
  /\ Len(result[1]) = 1
  /\ result[1][1].logisticsScore = 1000
  /\ result[1][1].governmentalScore = pairs[1][1].scores.governmental + 69

(***************************************************************************)
(* Properties of calculateDistance                                         *)
(***************************************************************************)
\* C23: for all coordinates A and B, distance(A, B) is equal to
\* distance(B, A), it is not negative, and distance(A, A) is 0.
C23_DistanceSymmetricNonNegative ==
  Probed("calculateDistance") =>
     LET A == probe.in[1]
         B == probe.in[2]
     IN  /\ probe.out = calculateDistance(B[1], B[2], A[1], A[2])
         /\ Geq(probe.out, 0)
         /\ (A = B => probe.out = 0)

(***************************************************************************)
(* Properties of DataExporter.toCSV                                        *)
(***************************************************************************)
\* the positions of delimiter in text, and the n-th of them (0 before the
\* text, one past its end after the last)
PositionsOf(text, delimiter) == {n \in 1..Len(text) : text[n] = delimiter}

NthPosition(text, delimiter, n) ==
  IF n = 0 THEN 0
  ELSE IF n > Cardinality(PositionsOf(text, delimiter)) THEN Len(text) + 1
  ELSE CHOOSE p \in PositionsOf(text, delimiter) :
         Cardinality({q \in PositionsOf(text, delimiter) : q < p}) = n - 1

\* text.split(delimiter)
SplitText(text, delimiter) ==
  [n \in 1..(Cardinality(PositionsOf(text, delimiter)) + 1) |->
     SubSeq(text, NthPosition(text, delimiter, n - 1) + 1,
            NthPosition(text, delimiter, n) - 1)]

\* C24: toCSV(sites) has exactly 1 + |sites| lines; the first is the header
\* of 11 columns; each following line is one site, in the order of the
\* input, and splits on the comma into exactly 11 fields, the first the id
\* of the site and the last two its facility ids joined with ";"; for every
\* list of sites, the empty one included.
C24_CSVShape ==
  Probed("toCSV") =>
     LET list == probe.in
         lines == SplitText(probe.out, "\n")
     IN  /\ Len(lines) = 1 + Len(list)
         /\ SplitText(lines[1], ",") = headers
         /\ Len(headers) = 11
         /\ \A n \in 1..Len(list) :
               LET fields == SplitText(lines[n + 1], ",")
               IN  /\ Len(fields) = 11
                   /\ fields[1] = list[n].id
                   /\ fields[10] = Join(list[n].aceticAcidFacilities, ";")
                   /\ fields[11] = Join(list[n].co2EmitterFacilities, ";")

(***************************************************************************)
(* Properties of the overlap route                                         *)
(***************************************************************************)
\* the checks a record has to pass
CoordinatesInRange(f) ==
  /\ f.latitude # NaN /\ -900000 <= f.latitude /\ f.latitude <= 900000
  /\ f.longitude # NaN /\ -1800000 <= f.longitude /\ f.longitude <= 1800000

WellTyped(f) == \A field \in DOMAIN f.typeof :
                   f.typeof[field] = (IF field \in {"id", "name"} THEN "string"
                                      ELSE "number")

PassesAcetic(f) ==
  /\ WellTyped(f)
  /\ CoordinatesInRange(f)
  /\ f.capacity # NaN /\ f.capacity > 0
  /\ f.operationalStatus \in {"active", "inactive", "planned"}

PassesCO2(f) ==
  /\ WellTyped(f)
  /\ CoordinatesInRange(f)
  /\ f.co2EmissionRate # NaN /\ f.co2EmissionRate > 0
  /\ f.operationalStatus \in {"active", "inactive", "planned"}
  /\ f.facilityType \in {"petrochemical", "refinery", "steel", "cement", "power"}

\* C25: every record the route passes to generateSiteRecommendations has
\* passed the validator (latitude in [-90, 90], longitude in [-180, 180],
\* capacity > 0 or co2EmissionRate > 0, a status and a type of the allowed
\* sets); a fetched record that fails a check does not reach the engine, the
\* others reach it in the order fetched; and the total midpoint weight of
\* every pair the engine processes is strictly positive.
C25_OnlyValidatedReachEngine ==
  \A k \in Calls :
     pc[k] # "idle" =>
        /\ aceticFacilities[k] = SelectSeq(fetched.acetic, PassesAcetic)
        /\ co2Facilities[k] = SelectSeq(fetched.co2, PassesCO2)
        /\ \A p \in PairsOf(k) :
              AceticWeightOf(k, p) + CO2WeightOf(k, p) > 0

\* the route fetched a plant without capacity, an emitter out of range and
\* valid records, and the engine has placed a site for the valid pair
C25_Witness ==
  /\ pc[1] = "done"
  /\ \E n \in DOMAIN fetched.acetic : fetched.acetic[n].capacity = 0
  /\ \E n \in DOMAIN fetched.co2 : fetched.co2[n].longitude < -1800000
  /\ Len(aceticFacilities[1]) < Len(fetched.acetic)
  /\ Len(co2Facilities[1]) < Len(fetched.co2)
  /\ Len(result[1]) > 0

(***************************************************************************)
(* Properties of the admin panel                                           *)
(***************************************************************************)
\* the four weights, in percent, sum to 100 within 0.1
SumsTo100(scoringWeights) ==
  LET sum == scoringWeights.governmental + scoringWeights.logistics
               + scoringWeights.policyIncentives + scoringWeights.communityReadiness
  IN  sum - 1000 <= 1 /\ 1000 - sum <= 1

\* C26: a save that was started (saveStatus "saving") ends in "saved" only
\* if the four weights it was started with sum to 100 within 0.1 and in
\* "error" whenever they do not; nothing else sets "saved" or "error"; a
\* save that was started ends, and after either outcome saveStatus
\* eventually is "idle" again.
C26_SaveEnforcesWeightSum ==
  /\ [][Len(saving') < Len(saving) =>
          /\ saveStatus' = "saved" <=> SumsTo100(Head(saving).scoringWeights)
          /\ saveStatus' = "error" <=> ~SumsTo100(Head(saving).scoringWeights)]_vars
  /\ [][(saveStatus' \in {"saved", "error"} /\ saveStatus' # saveStatus) =>
          Len(saving') < Len(saving)]_vars
  /\ [](saveStatus = "saving" => saving # <<>>)
  /\ (saveStatus = "saving") ~> (saveStatus \in {"saved", "error"})
  /\ (saveStatus \in {"saved", "error"}) ~> (saveStatus = "idle")

\* a save of weights that sum to 100.2 has ended in "error" and its timer
\* is pending
C26_Witness ==
  /\ saveStatus = "error"
  /\ totalWeight(config.scoringWeights) = 1002
  /\ saving = <<>>
  /\ timers = 1

(***************************************************************************)
(* Properties of the boost and of the floor of the scores                  *)
(***************************************************************************)
\* the sums of calculateGovernmentalScore and calculateLogisticsScore
\* before they are cut to [0, 100], in tenths
RawGovernmental(c) ==
  10 * (ByZone(c, 85, 70, 60, 65, 80) + (IF c.industrialZoning THEN 10 ELSE -15)
        + ByDensity(c, 5, -5, -15) + If(c.nearPort, 5) + If(c.nearPipeline, 10)
        + If(c.nearPowerGrid, 5))

RawLogistics(c) ==
  10 * (ByZone(c, 90, 85, 70, 75, 80) + If(c.nearPort, 25) + If(c.nearHighway, 15)
        + If(c.nearRail, 20) + If(c.nearPipeline, 30) + If(c.nearPowerGrid, 10)
        + If(c.populationDensity = "high", -10))

\* x cut to [0, 100]
CutToRange(x) == IF x < 0 THEN 0 ELSE IF x > 1000 THEN 1000 ELSE x

\* C27: for every context and every bonus b in [0, 25] the emitted
\* governmentalScore is min(100, max(0, rawGovernmental + 0.3 b)) and the
\* emitted logisticsScore is min(100, max(0, rawLogistics + 0.4 b)), raw
\* being the sum before it is cut: cutting, boosting and capping (the code)
\* gives what boosting and then cutting gives.
C27_BoostThenClamp ==
  Probed("adjustScores") =>
     LET c == probe.in[1]
         b == probe.in[2]
     IN  /\ probe.out.adjustedScores.governmental = CutToRange(RawGovernmental(c) + 3 * b)
         /\ probe.out.adjustedScores.logistics = CutToRange(RawLogistics(c) + 4 * b)

\* a context whose logistics sum is above 100 before it is cut and whose
\* governmental sum is raised by the full bonus to below 100
C27_Witness ==
  /\ Probed("adjustScores")
  /\ probe.in[2] = 25
  /\ RawLogistics(probe.in[1]) > 1000
  /\ probe.out.adjustedScores.logistics = 1000
  /\ RawGovernmental(probe.in[1]) + 75 < 1000
  /\ probe.out.adjustedScores.governmental = probe.out.scores.governmental + 75

\* C28: for every zone and context each of the four sub-scores is at least
\* 30; with a bonus of at least 3, as every single pair has, the overall
\* score is at least 49, so that no minScore up to 49 discards the site.
C28_ScoreFloor ==
  Probed("adjustScores") =>
     /\ probe.out.scores.governmental >= 300
     /\ probe.out.scores.logistics >= 300
     /\ probe.out.scores.policyIncentives >= 300
     /\ probe.out.scores.communityReadiness >= 300
     /\ probe.in[2] >= 3 =>
           /\ probe.out.overallScore >= 49
           /\ \A threshold \in 0..49 : MeetsScore(probe.out.overallScore, threshold)

\* the floor is met: a governmental and a community score of 30 and, with
\* the bonus of 3, an overall score of 49
C28_Witness ==
  /\ Probed("adjustScores")
  /\ probe.in[2] = 3
  /\ probe.out.scores.governmental = 300
  /\ probe.out.scores.communityReadiness = 300
  /\ probe.out.overallScore = 49

(***************************************************************************)
(* The facilities a site refers to                                         *)
(***************************************************************************)
\* the ids of the facilities of a list
IdsOf(list) == {list[n].id : n \in DOMAIN list}

\* C29: every site, while the call runs and when it is returned, refers to
\* exactly one acetic facility id and exactly one CO2 facility id, both of
\* the input lists; each pair of positions of the cross product is processed
\* at most once and contributes at most one site, so there are at most
\* |acetic| * |co2| sites; and, the ids of the facilities being unique, no
\* two sites refer to the same pair.
C29_OneSitePerPair ==
  \A k \in Calls :
     /\ \A list \in {sites[k], result[k]} :
           /\ Len(list) <= Len(aceticFacilities[k]) * Len(co2Facilities[k])
           /\ \A n \in DOMAIN list :
                 /\ Len(list[n].aceticAcidFacilities) = 1
                 /\ Len(list[n].co2EmitterFacilities) = 1
                 /\ list[n].aceticAcidFacilities[1] \in IdsOf(aceticFacilities[k])
                 /\ list[n].co2EmitterFacilities[1] \in IdsOf(co2Facilities[k])
           /\ \A m, n \in DOMAIN list :
                 m # n =>
                   <<list[m].aceticAcidFacilities, list[m].co2EmitterFacilities>>
                     # <<list[n].aceticAcidFacilities, list[n].co2EmitterFacilities>>
     /\ \A m, n \in DOMAIN pairs[k] :
           m # n => <<pairs[k][m].a, pairs[k][m].c>> # <<pairs[k][n].a, pairs[k][n].c>>
     /\ Len(sites[k]) = Cardinality({n \in DOMAIN pairs[k] : pairs[k][n].emit})
     /\ \A n \in DOMAIN pairs[k] :
           pairs[k][n].emit =>
              \E site \in SitesOf(k) :
                 /\ site.id = pairs[k][n].id
                 /\ site.aceticAcidFacilities = <<aceticFacilities[k][pairs[k][n].a].id>>
                 /\ site.co2EmitterFacilities = <<co2Facilities[k][pairs[k][n].c].id>>

\* a call with two plants and two emitters has returned a site for each of
\* the four pairs
C29_Witness ==
  /\ pc[1] = "done"
  /\ Len(aceticFacilities[1]) = 2
  /\ Len(co2Facilities[1]) = 2
  /\ Len(result[1]) = 4

(***************************************************************************)
(* Properties of the selection of the dashboard                            *)
(***************************************************************************)
\* the ids of the selection before and after a step, in their order
SelectedIds == [n \in DOMAIN selectedSites |-> selectedSites[n].id]
SelectedIdsAfter == [n \in DOMAIN selectedSites' |-> selectedSites'[n].id]

\* the selection after the step is the selection before it without the
\* sites of the id, in the same order
RemovedFromSelection(id) ==
  /\ \A n \in DOMAIN selectedSites' : selectedSites'[n].id # id
  /\ \E f \in [DOMAIN selectedSites' -> DOMAIN selectedSites] :
        /\ \A m, n \in DOMAIN f : m < n => f[m] < f[n]
        /\ \A n \in DOMAIN f : selectedSites'[n] = selectedSites[f[n]]
        /\ \A n \in DOMAIN selectedSites :
              selectedSites[n].id # id => \E m \in DOMAIN f : f[m] = n

\* C30: after any sequence of handleSiteSelect, removals by id and
\* clearSelection the selection holds at most 3 sites and no two of the same
\* id; handleSiteSelect of a site whose id is selected removes it, and
\* otherwise appends the site and, if that makes 4, drops the oldest;
\* a removal by id removes the site of the id, clearSelection all.
C30_SelectionOfThree ==
  /\ [](/\ Len(selectedSites) <= 3
        /\ \A m, n \in DOMAIN selectedSites :
              m # n => selectedSites[m].id # selectedSites[n].id)
  /\ [][\A site \in ListedSites :
          handleSiteSelect(site) =>
            IF \E n \in DOMAIN selectedSites : selectedSites[n].id = site.id
              THEN RemovedFromSelection(site.id)
              ELSE IF Len(selectedSites) < 3
                THEN selectedSites' = selectedSites \o <<site>>
                ELSE selectedSites' = Tail(selectedSites) \o <<site>>]_vars
  /\ [][\A n \in 1..MaxListed :
          onRemoveSite(SiteName(n)) => RemovedFromSelection(SiteName(n))]_vars
  /\ [][clearSelection => selectedSites' = <<>>]_vars

\* three sites are selected, the one selected first is no longer among
\* them and the newest is site-1
C30_Witness ==
  /\ Len(selectedSites) = 3
  /\ selectedSites[1].id = SiteName(3)
  /\ selectedSites[2].id = SiteName(4)
  /\ selectedSites[3].id = SiteName(1)
====
